---- MODULE Spec2Model ----
(***************************************************************************)
(* Model of nodes.py: URL resolution (get_lora_from_url), the on-disk      *)
(* cache (find_or_create_cache, download_file) and the single-slot weights *)
(* cache of the LoadLoraModelOnlyWithUrl node.                             *)
(*                                                                         *)
(* Python str values are TLA+ strings; the str methods the code uses are   *)
(* defined below character by character.                                   *)
(***************************************************************************)
EXTENDS Integers, Sequences, FiniteSets, TLC

(***************************************************************************)
(* Python str methods                                                      *)
(***************************************************************************)

\* s[i] as a one-character string (1-based)
CharAt(s, i) == SubSeq(s, i, i)

\* s[i:] with a 1-based start
From(s, i) == SubSeq(s, i, Len(s))

startswith(s, p) == Len(p) <= Len(s) /\ SubSeq(s, 1, Len(p)) = p

endswith(s, p) == Len(p) <= Len(s) /\ SubSeq(s, Len(s) - Len(p) + 1, Len(s)) = p

\* the 1-based positions at which p occurs in s
Occurrences(s, p) ==
    {i \in 1..(Len(s) - Len(p) + 1) : SubSeq(s, i, i + Len(p) - 1) = p}

\* str.find, 1-based; 0 when p does not occur in s
find(s, p) ==
    LET occ == Occurrences(s, p)
    IN  IF occ = {} THEN 0 ELSE CHOOSE i \in occ : \A j \in occ : i <= j

\* str.rfind, 1-based; 0 when p does not occur in s
rfind(s, p) ==
    LET occ == Occurrences(s, p)
    IN  IF occ = {} THEN 0 ELSE CHOOSE i \in occ : \A j \in occ : j <= i

\* the `in` operator on two strings
contains(s, p) == find(s, p) # 0

\* str.replace: non-overlapping occurrences, leftmost first
RECURSIVE replace(_, _, _)
replace(s, old, new) ==
    LET i == find(s, old) IN
    IF i = 0 THEN s
    ELSE SubSeq(s, 1, i - 1) \o new \o replace(From(s, i + Len(old)), old, new)

\* str.split(sep): a sequence of strings, never empty
RECURSIVE split(_, _)
split(s, sep) ==
    LET i == find(s, sep) IN
    IF i = 0 THEN <<s>>
    ELSE <<SubSeq(s, 1, i - 1)>> \o split(From(s, i + Len(sep)), sep)

\* sep.join(parts)
RECURSIVE join(_, _)
join(sep, parts) ==
    IF Len(parts) = 0 THEN ""
    ELSE IF Len(parts) = 1 THEN parts[1]
    ELSE parts[1] \o sep \o join(sep, Tail(parts))

IsSpace(c) == c \in {" ", "\t", "\n", "\r"}

RECURSIVE lstrip(_)
lstrip(s) ==
    IF Len(s) > 0 /\ IsSpace(CharAt(s, 1)) THEN lstrip(From(s, 2)) ELSE s

RECURSIVE rstrip(_)
rstrip(s) ==
    IF Len(s) > 0 /\ IsSpace(CharAt(s, Len(s))) THEN rstrip(SubSeq(s, 1, Len(s) - 1)) ELSE s

strip(s) == rstrip(lstrip(s))

Upper == "ABCDEFGHIJKLMNOPQRSTUVWXYZ"
Lower == "abcdefghijklmnopqrstuvwxyz"

LowerChar(c) ==
    LET i == find(Upper, c) IN IF i = 0 THEN c ELSE CharAt(Lower, i)

\* str.lower, character by character (by halves)
RECURSIVE lower(_)
lower(s) ==
    IF Len(s) = 0 THEN ""
    ELSE IF Len(s) = 1 THEN LowerChar(s)
    ELSE lower(SubSeq(s, 1, Len(s) \div 2)) \o lower(From(s, Len(s) \div 2 + 1))

(***************************************************************************)
(* hashlib.md5(...).hexdigest(): a fixed-length lowercase hexadecimal      *)
(* digest computed from the bytes of the string.  The 128-bit digest is    *)
(* represented by a 15-bit polynomial checksum of character codes:         *)
(* like md5 it is a deterministic function of the whole string and is not  *)
(* injective.                                                              *)
(***************************************************************************)
Printable ==
    " !#$%&()*+,-./0123456789:;<=>?@ABCDEFGHIJKLMNOPQRSTUVWXYZ[]^_abcdefghijklmnopqrstuvwxyz{|}~"

\* the code of a character: its position in Printable (0 for any other)
ord(c) == find(Printable, c)

\* 31^k modulo 2^15
RECURSIVE Pow31(_)
Pow31(k) ==
    IF k = 0 THEN 1
    ELSE LET h == Pow31(k \div 2)
         IN  IF k % 2 = 0 THEN (h * h) % 32768 ELSE (((h * h) % 32768) * 31) % 32768

\* sum of ord(s[i]) * 31^(Len(s) - i) modulo 2^15 (by halves)
RECURSIVE Digest(_)
Digest(s) ==
    IF Len(s) = 0 THEN 0
    ELSE IF Len(s) = 1 THEN ord(s)
    ELSE LET a == SubSeq(s, 1, Len(s) \div 2)
             b == From(s, Len(s) \div 2 + 1)
         IN  (Digest(a) * Pow31(Len(b)) + Digest(b)) % 32768

HexDigits == "0123456789abcdef"

RECURSIVE Hex(_, _)
Hex(n, width) ==
    IF width = 0 THEN ""
    ELSE Hex(n \div 16, width - 1) \o CharAt(HexDigits, (n % 16) + 1)

md5_hexdigest(s) == Hex(Digest(s), 4)

\* nodes.py get_filename_from_url
get_filename_from_url(url, extension) == md5_hexdigest(url) \o "." \o extension

(***************************************************************************)
(* get_lora_from_url, lines 40-108 and 116-122: what the call decides from *)
(* the url and the environment alone, before it touches the disk           *)
(***************************************************************************)
\* Python None / a present value
None == <<>>
Some(v) == <<v>>

\* the decisions of one call: how it ends when the url is rejected, the
\* branch, the string that is hashed, the url that is requested, the cache
\* subdirectory and file name, the arguments of hf_hub_download
Plan(outcome, strategy) ==
    [outcome |-> outcome, strategy |-> strategy, hashed |-> "", request_url |-> "",
     subdir |-> "", save_filename |-> "", hf |-> <<>>]

\* lines 50, 88, 116: the branch taken for a (stripped) url
provider(url) ==
    IF contains(url, "huggingface.co") THEN "hf"
    ELSE IF contains(url, "civitai.com") THEN "civitai"
    ELSE "general"

\* lines 53-58: drop the ?download=true suffix, then turn /blob/ into /resolve/
hf_normalize(url) ==
    LET u1 == IF endswith(url, "?download=true")
              THEN SubSeq(url, 1, Len(url) - Len("?download=true")) ELSE url
    IN  IF contains(u1, "/blob/") THEN replace(u1, "/blob/", "/resolve/") ELSE u1

\* lines 66-80: repo id, subfolder and filename of a normalized url;
\* parts[1] and parts[2] of the code raise IndexError on a short url
hf_parse(url) ==
    LET parser_string == replace(replace(url, "http://", ""), "https://", "")
        parts == split(parser_string, "/")
        n == Len(parts)
    IN  IF n < 3 THEN [ok |-> FALSE, repo_id |-> "", subfolder |-> None, filename |-> ""]
        ELSE [ok |-> TRUE,
              repo_id |-> parts[2] \o "/" \o parts[3],
              filename |-> parts[n],
              subfolder |-> IF n - 6 > 0 THEN Some(join("/", SubSeq(parts, 6, n - 1)))
                            ELSE None]

\* lines 50-85: the arguments handed to hf_hub_download
hf_resolve(url) ==
    LET u == hf_normalize(url)
        p == hf_parse(u)
    IN  IF ~endswith(lower(u), "safetensors") THEN Plan("ValueError", "hf")
        ELSE IF ~p.ok THEN Plan("IndexError", "hf")
        ELSE [Plan("ok", "hf") EXCEPT
                !.hf = <<[repo_id |-> strip(p.repo_id), subfolder |-> p.subfolder,
                          filename |-> strip(p.filename)]>>]

\* lines 93-96: the modelVersionId rewrite; split(...)[1] raises IndexError
\* when "modelVersionId=" does not occur
civitai_rewrite(url) ==
    IF contains(url, "modelVersionId")
    THEN LET pieces == split(url, "modelVersionId=")
         IN  IF Len(pieces) < 2 THEN [ok |-> FALSE, url |-> url]
             ELSE [ok |-> TRUE,
                   url |-> "https://civitai.com/api/download/models/"
                           \o split(pieces[2], "&")[1]
                           \o "?type=Model&format=SafeTensor"]
    ELSE [ok |-> TRUE, url |-> url]

\* lines 104-108: the url requested, with the key of os.environ appended;
\* environ is <<>> when CIVITAI_API_KEY is unset and <<key>> when it is set
civitai_request_url(url, env) ==
    IF Len(env) > 0 /\ strip(env[1]) # ""
    THEN url \o "&token=" \o env[1] ELSE url

\* a civitai branch that appends the key before it hashes the url
civitai_resolve_key_first(url, env) ==
    LET rw == civitai_rewrite(url)
        request_url == civitai_request_url(rw.url, env)
    IN  IF ~rw.ok THEN Plan("IndexError", "civitai")
        ELSE IF ~contains(rw.url, "SafeTensor") THEN Plan("ValueError", "civitai")
        ELSE [Plan("ok", "civitai") EXCEPT
                !.hashed = request_url,
                !.save_filename = get_filename_from_url(request_url, "safetensors"),
                !.request_url = request_url,
                !.subdir = "civitai"]

\* lines 88-111
civitai_resolve(url, env) ==
    LET rw == civitai_rewrite(url)
    IN  IF ~rw.ok THEN Plan("IndexError", "civitai")
        ELSE IF ~contains(rw.url, "SafeTensor") THEN Plan("ValueError", "civitai")
        ELSE [Plan("ok", "civitai") EXCEPT
                !.hashed = rw.url,
                !.save_filename = get_filename_from_url(rw.url, "safetensors"),
                !.request_url = civitai_request_url(rw.url, env),
                !.subdir = "civitai"]

\* a generic branch that checks the extension with the query string still on
general_resolve_with_query(url) ==
    IF ~endswith(lower(url), "safetensors") THEN Plan("ValueError", "general")
    ELSE [Plan("ok", "general") EXCEPT
            !.hashed = url,
            !.save_filename = get_filename_from_url(url, "safetensors"),
            !.request_url = url,
            !.subdir = "general"]

\* lines 116-123
general_resolve(url) ==
    IF ~endswith(split(lower(url), "?")[1], "safetensors")
    THEN Plan("ValueError", "general")
    ELSE [Plan("ok", "general") EXCEPT
            !.hashed = url,
            !.save_filename = get_filename_from_url(url, "safetensors"),
            !.request_url = url,
            !.subdir = "general"]

\* lines 40-50, 88, 116
resolve(raw, env) ==
    LET url == strip(raw) IN
    IF url = "" THEN Plan("ValueError", "none")
    ELSE IF ~startswith(url, "http") THEN Plan("ValueError", "none")
    ELSE IF provider(url) = "hf" THEN hf_resolve(url)
    ELSE IF provider(url) = "civitai" THEN civitai_resolve(url, env)
    ELSE general_resolve(url)

(***************************************************************************)
(* Inputs                                                                  *)
(***************************************************************************)
\* the number of node invocations explored
MaxCalls == 2

\* a huggingface.co file, and the url forms a user copies for it
HfFiles ==
    [owner : {"owner", "blob"}, repo : {"repo"}, rev : {"main", "blob"},
     subs : {<<>>, <<"sub">>, <<"blob">>, <<"sub", "deep">>},
     file : {"file.safetensors", "F.SafeTensors"}]

HfSegments == {"blob", "resolve"}

HfUrl(c, segment, download) ==
    "https://huggingface.co/"
    \o join("/", <<c.owner, c.repo, segment, c.rev>> \o c.subs \o <<c.file>>)
    \o (IF download THEN "?download=true" ELSE "")

HfUrls(c) == {HfUrl(c, sg, d) : sg \in HfSegments, d \in BOOLEAN}

\* a civitai.com model page url carrying modelVersionId among other parameters
CivitaiIds == {"5000", "9"}

CivitaiPages ==
    [id : CivitaiIds,
     before : {<<>>, <<"a=1">>, <<"oldmodelVersionId=7">>},
     after : {<<>>, <<"b=2">>}]

CivitaiUrl(c) ==
    "https://civitai.com/models/111?"
    \o join("&", c.before \o <<"modelVersionId=" \o c.id>> \o c.after)

CivitaiUrls(id) == {CivitaiUrl(c) : c \in {p \in CivitaiPages : p.id = id}}

CivitaiCanonical(id) ==
    "https://civitai.com/api/download/models/" \o id \o "?type=Model&format=SafeTensor"

\* the urls given to the node
Urls ==
    {"",
     "ftp://example.com/weights.safetensors",
     "https://huggingface.co/owner/repo/blob/main/sub/file.safetensors?download=true",
     "https://huggingface.co/file.safetensors",
     "https://civitai.com/models/111?modelVersionId=5000",
     CivitaiCanonical("5000"),
     "https://civitai.com/api/download/models/5000",
     "https://example.com/weights.safetensors?v=2",
     " https://example.com/weights.safetensors?v=2 ",
     "https://example.com/W.SAFETENSORS",
     "https://example.com/weights.bin?f=x.safetensors",
     "https://example.com/notsafetensors",
     "https://example.com/huggingface.co/w.safetensors",
     "https://example.com/w.safetensors?ref=civitai.com"}

\* os.environ restricted to CIVITAI_API_KEY: unset, blank, or a key
Environs == {<<>>, <<"  ">>, <<"k3y">>}

\* every url some specification resolves
Inputs ==
    Urls \cup UNION {HfUrls(c) : c \in HfFiles} \cup UNION {CivitaiUrls(id) : id \in CivitaiIds}

\* resolve, tabulated over the inputs
Resolved == [raw \in Inputs, env \in Environs |-> resolve(raw, env)]

\* answers of the network to one GET
Responses ==
    {[status_code |-> 200, content |-> "tensors"],
     [status_code |-> 200, content |-> "garbage"],
     [status_code |-> 404, content |-> "not found"]}

Strengths == {0, 1}

\* the directories under the working directory when the process starts
Layouts ==
    {{}, {"/cwd/models"}, {"/cwd/ComfyUI", "/cwd/ComfyUI/models"}}

(***************************************************************************)
(* The filesystem: dirs is the set of directories that exist, files maps   *)
(* each existing regular file to its content.                              *)
(***************************************************************************)
\* os.path.join of a directory and a relative name
path_join(a, b) == a \o "/" \o b

\* os.path.dirname
dirname(p) == SubSeq(p, 1, rfind(p, "/") - 1)

\* os.path.exists
path_exists(p, ds, fs) == p \in ds \/ p \in DOMAIN fs

\* os.getcwd()
Cwd == "/cwd"

\* nodes.py find_or_create_cache: the cache root and the directories afterwards
find_or_create_cache(ds, fs) ==
    LET cwd1 == IF path_exists(path_join(Cwd, "ComfyUI"), ds, fs)
                THEN path_join(Cwd, "ComfyUI") ELSE Cwd
        cwd2 == IF path_exists(path_join(cwd1, "models"), ds, fs)
                THEN path_join(cwd1, "models") ELSE cwd1
        root == path_join(cwd2, "huggingface_cache")
    IN  [root |-> root,
         dirs |-> IF ~path_exists(root, ds, fs) THEN ds \cup {root} ELSE ds]

\* the content of a file opened for writing and not yet written
EmptyFile == ""

\* files with the content of one file set
WriteFile(fs, filename, content) ==
    [p \in DOMAIN fs \cup {filename} |-> IF p = filename THEN content ELSE fs[p]]

\* a download_file that opens the destination before it looks at the status
download_file_open_first(url, filename, ds, fs, resp) ==
    LET dirs1 == ds \cup {dirname(filename)}
    IN  IF resp.status_code = 200
        THEN [ok |-> TRUE, dirs |-> dirs1, wrote |-> TRUE,
              files |-> WriteFile(fs, filename, resp.content)]
        ELSE [ok |-> FALSE, dirs |-> dirs1, wrote |-> TRUE,
              files |-> WriteFile(fs, filename, EmptyFile)]

\* nodes.py download_file: resp is the answer of requests.get(url)
download_file(url, filename, ds, fs, resp) ==
    LET dirs1 == ds \cup {dirname(filename)}
    IN  IF resp.status_code = 200
        THEN [ok |-> TRUE, dirs |-> dirs1, wrote |-> TRUE,
              files |-> WriteFile(fs, filename, resp.content)]
        ELSE [ok |-> FALSE, dirs |-> dirs1, wrote |-> FALSE, files |-> fs]

(***************************************************************************)
(* get_lora_from_url, lines 82-87 and 110-128: the cache                   *)
(***************************************************************************)
\* what a call leaves behind: how it ended, the path it returned, the cache
\* path it computed, and what it did on the way
Result(outcome, strategy, ds, fs) ==
    [outcome |-> outcome, strategy |-> strategy, lora_path |-> "", target |-> "",
     hashed |-> "", requested |-> <<>>, hf |-> <<>>, cache_root |-> "",
     checked |-> FALSE, existed |-> FALSE, wrote |-> FALSE,
     dirs |-> ds, files |-> fs]

\* huggingface_hub.hf_hub_download as the code relies on it: the file of
\* (repo_id, subfolder, filename) under cache_dir, fetched when it is not there
hf_hub_download(repo_id, subfolder, filename, cache_dir, ds, fs, resp) ==
    LET folder == path_join(cache_dir, "models--" \o replace(repo_id, "/", "--"))
        inner == IF subfolder = None THEN filename ELSE path_join(subfolder[1], filename)
        path == path_join(path_join(folder, "snapshots/main"), inner)
    IN  IF path \in DOMAIN fs
        THEN [ok |-> TRUE, path |-> path, dirs |-> ds, files |-> fs, wrote |-> FALSE]
        ELSE [path |-> path] @@ download_file("", path, ds, fs, resp)

\* lines 111 and 123
cache_path(root, subdir, save_filename) == path_join(path_join(root, subdir), save_filename)

\* a fetch that downloads whether or not the cache file exists
fetch_always(request_url, path, ds, fs, resp, res) ==
    LET d == download_file(request_url, path, ds, fs, resp)
    IN  [res EXCEPT !.outcome = IF d.ok THEN "ok" ELSE "DownloadError",
                    !.lora_path = IF d.ok THEN path ELSE "",
                    !.target = path, !.checked = TRUE,
                    !.existed = path_exists(path, ds, fs),
                    !.requested = <<request_url>>,
                    !.wrote = d.wrote, !.dirs = d.dirs, !.files = d.files]

\* lines 112-115 and 124-126: download unless the cache file exists
fetch(request_url, path, ds, fs, resp, res) ==
    IF path_exists(path, ds, fs)
    THEN [res EXCEPT !.outcome = "ok", !.lora_path = path, !.target = path,
                     !.checked = TRUE, !.existed = TRUE,
                     !.dirs = ds, !.files = fs]
    ELSE LET d == download_file(request_url, path, ds, fs, resp)
         IN  [res EXCEPT !.outcome = IF d.ok THEN "ok" ELSE "DownloadError",
                         !.lora_path = IF d.ok THEN path ELSE "",
                         !.target = path, !.checked = TRUE,
                         !.requested = <<request_url>>,
                         !.wrote = d.wrote, !.dirs = d.dirs, !.files = d.files]

\* lines 40-128: resp is what the network answers if it is asked
get_lora_from_url(raw, env, ds, fs, resp) ==
    LET plan == Resolved[raw, env]
        cache == find_or_create_cache(ds, fs)
        got == hf_hub_download(plan.hf[1].repo_id, plan.hf[1].subfolder,
                               plan.hf[1].filename, cache.root, cache.dirs, fs, resp)
    IN  IF plan.outcome # "ok" THEN Result(plan.outcome, plan.strategy, ds, fs)
        ELSE IF plan.strategy = "hf"
        THEN [Result(IF got.ok THEN "ok" ELSE "HubError", "hf", got.dirs, got.files)
                EXCEPT !.hf = plan.hf, !.cache_root = cache.root,
                       !.lora_path = IF got.ok THEN got.path ELSE "",
                       !.target = got.path, !.wrote = got.wrote]
        ELSE fetch(plan.request_url,
                   cache_path(cache.root, plan.subdir, plan.save_filename),
                   cache.dirs, fs, resp,
                   [Result("ok", plan.strategy, ds, fs)
                      EXCEPT !.hashed = plan.hashed, !.cache_root = cache.root])

(***************************************************************************)
(* LoadLoraModelOnlyWithUrl                                                *)
(***************************************************************************)
\* comfy.utils.load_torch_file(path, safe_load=True): the decoded tensors of
\* a readable safetensors file, an error for anything else
Unreadable == {EmptyFile, "garbage", "not found"}

load_torch_file(content) ==
    IF content \in Unreadable THEN None ELSE Some(<<"lora", content>>)

\* comfy.sd.load_lora_for_models(model, None, lora, strength_model, 0)[0]
load_lora_for_models(model, lora, strength_model) ==
    <<"patched", model, lora, strength_model>>

\* a node that never takes the zero-strength shortcut
skips_never(strength_model) == FALSE

\* line 160
skips(strength_model) == strength_model = 0

\* a lookup that reuses the entry it holds whatever path it was read from
lookup_any_path(slot, path, fs) ==
    LET read == load_torch_file(fs[path])
    IN  IF slot.lora # None
        THEN [lora |-> slot.lora, slot |-> slot, loaded |-> FALSE, evicted |-> FALSE,
              ok |-> TRUE]
        ELSE IF read = None
        THEN [lora |-> None, loaded |-> TRUE, evicted |-> FALSE, ok |-> FALSE, slot |-> slot]
        ELSE [lora |-> read, loaded |-> TRUE, evicted |-> FALSE, ok |-> TRUE,
              slot |-> [lora |-> read, path |-> Some(path)]]

\* lines 166-180: the single-slot cache; slot is [lora, path], each None or Some
lookup(slot, path, fs) ==
    LET reuse == slot.lora # None /\ slot.path = Some(path)
        evict == slot.lora # None /\ slot.path # Some(path)
        read == load_torch_file(fs[path])
    IN  IF reuse
        THEN [lora |-> slot.lora, slot |-> slot, loaded |-> FALSE, evicted |-> FALSE,
              ok |-> TRUE]
        ELSE IF read = None
        THEN [lora |-> None, loaded |-> TRUE, evicted |-> evict, ok |-> FALSE,
              slot |-> IF evict THEN [lora |-> None, path |-> None] ELSE slot]
        ELSE [lora |-> read, loaded |-> TRUE, evicted |-> evict, ok |-> TRUE,
              slot |-> [lora |-> read, path |-> Some(path)]]

(***************************************************************************)
(* State                                                                   *)
(***************************************************************************)
VARIABLES
    environ,            \* os.environ: <<>> or <<CIVITAI_API_KEY>>
    dirs, files,        \* the disk
    loaded_lora,        \* self.loaded_lora: None or Some(weights)
    loaded_lora_path,   \* self.loaded_lora_path: None or Some(path)
    last,               \* the most recent invocation of the node and what it did
    ncalls,             \* invocations so far
    subject,            \* the input whose equivalent forms are resolved
    resolutions,        \* the forms resolved so far, each with its plan
    pc, call_url, race_path, response, observed   \* concurrent invocations

vars ==
    <<environ, dirs, files, loaded_lora, loaded_lora_path, last, ncalls,
      subject, resolutions, pc, call_url, race_path, response, observed>>

nodeVars == <<loaded_lora, loaded_lora_path, last, ncalls>>
formVars == <<subject, resolutions>>
raceVars == <<pc, call_url, race_path, response, observed>>

NoCall ==
    [op |-> "none", url |-> "", strength_model |-> 0,
     res |-> Result("none", "none", {}, <<>>),
     loaded |-> FALSE, evicted |-> FALSE, ret |-> <<>>]

NoSubject == [kind |-> "none", id |-> "", urls |-> {}]

\* the record of a call kept in `last`: the disk is in dirs and files
Trace(res) == [res EXCEPT !.dirs = {}, !.files = <<>>]

\* lines 150-152, before any invocation
NodeInit ==
    /\ loaded_lora = None
    /\ loaded_lora_path = None
    /\ last = NoCall
    /\ ncalls = 0

FormIdle == subject = NoSubject /\ resolutions = {}

RaceIdle ==
    /\ pc = <<>> /\ call_url = <<>> /\ race_path = <<>>
    /\ response = <<>> /\ observed = <<>>

(***************************************************************************)
(* The sequential program: one node, one process                           *)
(***************************************************************************)
Init ==
    /\ environ \in Environs
    /\ dirs \in Layouts
    /\ files = <<>>
    /\ NodeInit /\ FormIdle /\ RaceIdle

\* lines 154-188
load_lora_model_only_from_url(model, url, strength_model, resp) ==
    /\ ncalls < MaxCalls
    /\ ncalls' = ncalls + 1
    /\ UNCHANGED <<environ, formVars, raceVars>>
    /\ IF skips(strength_model)
       THEN /\ last' = [NoCall EXCEPT !.op = "load", !.url = url,
                                      !.strength_model = strength_model,
                                      !.res = Result("skipped", "none", {}, <<>>),
                                      !.ret = <<model>>]
            /\ UNCHANGED <<dirs, files, loaded_lora, loaded_lora_path>>
       ELSE \E res \in {get_lora_from_url(url, environ, dirs, files, resp)} :
            /\ dirs' = res.dirs
            /\ files' = res.files
            /\ IF res.outcome # "ok"
               THEN /\ UNCHANGED <<loaded_lora, loaded_lora_path>>
                    /\ last' = [NoCall EXCEPT !.op = "load", !.url = url,
                                   !.strength_model = strength_model,
                                   !.res = Trace(res)]
               ELSE \E got \in {lookup([lora |-> loaded_lora, path |-> loaded_lora_path],
                                       res.lora_path, res.files)} :
                    /\ loaded_lora' = got.slot.lora
                    /\ loaded_lora_path' = got.slot.path
                    /\ last' = [NoCall EXCEPT !.op = "load", !.url = url,
                                   !.strength_model = strength_model,
                                   !.res = IF got.ok THEN Trace(res)
                                           ELSE [Trace(res) EXCEPT !.outcome = "LoadError"],
                                   !.loaded = got.loaded,
                                   !.evicted = got.evicted,
                                   !.ret = IF got.ok
                                           THEN <<load_lora_for_models(
                                                    model, got.lora[1], strength_model)>>
                                           ELSE <<>>]

Next ==
    \E url \in Urls, strength_model \in Strengths, resp \in Responses :
        load_lora_model_only_from_url("base", url, strength_model, resp)

Spec == Init /\ [][Next]_vars

(***************************************************************************)
(* Equivalent forms of one input: the decisions of get_lora_from_url for   *)
(* each form of a subject, collected side by side                          *)
(***************************************************************************)
Subjects ==
    {[kind |-> "hf", id |-> HfUrl(c, "resolve", FALSE), urls |-> HfUrls(c)] : c \in HfFiles}
    \cup {[kind |-> "civitai", id |-> id, urls |-> CivitaiUrls(id)] : id \in CivitaiIds}
    \cup {[kind |-> "url", id |-> u, urls |-> {u}] : u \in Urls}

\* the environments a subject is resolved under
SubjectEnvirons(s) == IF s.kind = "url" THEN Environs ELSE {<<>>}

InitResolve ==
    /\ subject \in Subjects
    /\ resolutions = {}
    /\ environ = <<>>
    /\ dirs = {}
    /\ files = <<>>
    /\ NodeInit /\ RaceIdle

\* lines 40-108 and 116-122 for one form of the subject
Resolve(url, env) ==
    /\ url \in subject.urls
    /\ env \in SubjectEnvirons(subject)
    /\ resolutions' =
          resolutions \cup {[url |-> url, env |-> env, plan |-> Resolved[url, env]]}
    /\ resolutions' # resolutions
    /\ UNCHANGED <<subject, environ, dirs, files, nodeVars, raceVars>>

NextResolve == \E url \in Inputs, env \in Environs : Resolve(url, env)

SpecResolve == InitResolve /\ [][NextResolve]_vars

(***************************************************************************)
(* Two concurrent invocations of get_lora_from_url whose urls resolve to   *)
(* one civitai or generic cache path.  Each step is one system call or one *)
(* library call of the code; the steps of the two invocations interleave.  *)
(***************************************************************************)
Threads == {"t1", "t2"}

RaceUrls ==
    {"https://civitai.com/models/111?modelVersionId=5000",
     CivitaiCanonical("5000"),
     "https://example.com/weights.safetensors?v=2",
     " https://example.com/weights.safetensors?v=2 "}

\* the assignments of urls to the invocations that share a cache path
RaceCalls ==
    {c \in [Threads -> RaceUrls] :
        \A t, u \in Threads :
            /\ Resolved[c[t], <<>>].subdir = Resolved[c[u], <<>>].subdir
            /\ Resolved[c[t], <<>>].save_filename = Resolved[c[u], <<>>].save_filename}

NoResponse == [status_code |-> 0, content |-> ""]

InitRace ==
    /\ environ \in Environs
    /\ dirs \in Layouts
    /\ files = <<>>
    /\ NodeInit /\ FormIdle
    /\ call_url \in RaceCalls
    /\ pc = [t \in Threads |-> "start"]
    /\ race_path = [t \in Threads |-> ""]
    /\ response = [t \in Threads |-> NoResponse]
    /\ observed = [t \in Threads |-> None]

\* lines 42-108 or 116-122, then lines 28-33 of find_or_create_cache
find_cache(t) ==
    /\ pc[t] = "start"
    /\ \E plan \in {Resolved[call_url[t], environ]},
          cache \in {find_or_create_cache(dirs, files)} :
          /\ race_path' =
                [race_path EXCEPT ![t] = cache_path(cache.root, plan.subdir, plan.save_filename)]
          /\ pc' = [pc EXCEPT ![t] = IF path_exists(cache.root, dirs, files)
                                     THEN "exists" ELSE "mkdir"]
    /\ UNCHANGED <<environ, dirs, files, nodeVars, formVars, call_url, response, observed>>

\* line 35: os.mkdir raises FileExistsError when the directory is there
mkdir(t) ==
    /\ pc[t] = "mkdir"
    /\ \E root \in {find_or_create_cache(dirs, files).root} :
          IF path_exists(root, dirs, files)
          THEN /\ pc' = [pc EXCEPT ![t] = "raised"]
               /\ UNCHANGED dirs
          ELSE /\ pc' = [pc EXCEPT ![t] = "exists"]
               /\ dirs' = dirs \cup {root}
    /\ UNCHANGED <<environ, files, nodeVars, formVars, call_url, race_path, response, observed>>

\* lines 113 and 125
exists(t) ==
    /\ pc[t] = "exists"
    /\ pc' = [pc EXCEPT ![t] = IF path_exists(race_path[t], dirs, files)
                               THEN "return" ELSE "makedirs"]
    /\ UNCHANGED <<environ, dirs, files, nodeVars, formVars, call_url, race_path,
                   response, observed>>

\* line 12
makedirs(t) ==
    /\ pc[t] = "makedirs"
    /\ dirs' = dirs \cup {dirname(race_path[t])}
    /\ pc' = [pc EXCEPT ![t] = "get"]
    /\ UNCHANGED <<environ, files, nodeVars, formVars, call_url, race_path, response, observed>>

\* lines 13, 14 and 18
get(t, resp) ==
    /\ pc[t] = "get"
    /\ response' = [response EXCEPT ![t] = resp]
    /\ pc' = [pc EXCEPT ![t] = IF resp.status_code = 200 THEN "open" ELSE "raised"]
    /\ UNCHANGED <<environ, dirs, files, nodeVars, formVars, call_url, race_path, observed>>

\* line 15: opening for writing creates the file or truncates it
open(t) ==
    /\ pc[t] = "open"
    /\ files' = WriteFile(files, race_path[t], EmptyFile)
    /\ pc' = [pc EXCEPT ![t] = "write"]
    /\ UNCHANGED <<environ, dirs, nodeVars, formVars, call_url, race_path, response, observed>>

\* line 16 and the close that ends the with block
write(t) ==
    /\ pc[t] = "write"
    /\ files' = WriteFile(files, race_path[t], response[t].content)
    /\ pc' = [pc EXCEPT ![t] = "return"]
    /\ UNCHANGED <<environ, dirs, nodeVars, formVars, call_url, race_path, response, observed>>

\* line 128: observed is what the returned path holds when the call returns
return(t) ==
    /\ pc[t] = "return"
    /\ observed' = [observed EXCEPT ![t] = IF race_path[t] \in DOMAIN files
                                           THEN Some(files[race_path[t]]) ELSE None]
    /\ pc' = [pc EXCEPT ![t] = "done"]
    /\ UNCHANGED <<environ, dirs, files, nodeVars, formVars, call_url, race_path, response>>

NextRace ==
    \E t \in Threads :
        \/ find_cache(t)
        \/ mkdir(t)
        \/ exists(t)
        \/ makedirs(t)
        \/ \E resp \in Responses : get(t, resp)
        \/ open(t)
        \/ write(t)
        \/ return(t)

SpecRace == InitRace /\ [][NextRace]_vars

(***************************************************************************)
(* Properties                                                              *)
(***************************************************************************)
\* a step of Spec is one invocation of the node; last' describes it
Invoked == ncalls' = ncalls + 1

\* the last invocation went into get_lora_from_url
Resolving == last.op = "load" /\ last.res.outcome # "skipped"

\* the call ended before it looked at the cache, the disk or the network
Untouched(res) ==
    /\ ~res.checked /\ ~res.wrote
    /\ res.requested = <<>>
    /\ res.cache_root = ""
    /\ res.lora_path = ""

\* C1: a civitai or generic call that finds its cache path on disk returns
\* that path, requests nothing from the network and leaves every file as it
\* was, whatever calls came before it.
C1_CacheHit ==
    [][(Invoked /\ last'.res.strategy \in {"civitai", "general"} /\ last'.res.existed)
         => /\ last'.res.lora_path = last'.res.target
            /\ last'.res.requested = <<>>
            /\ ~last'.res.wrote
            /\ files' = files /\ dirs' = dirs]_vars

C1_Witness ==
    /\ ncalls = 2
    /\ last.res.strategy = "civitai" /\ last.res.existed
    /\ last.res.lora_path \in DOMAIN files
    /\ last.res.requested = <<>>

\* C2: when the GET of download_file answers with a status other than 200,
\* the call fails and no file exists at the destination afterwards.
C2_FailedDownloadWritesNothing ==
    (Resolving /\ last.res.outcome = "DownloadError")
        => /\ last.res.requested # <<>>
           /\ ~last.res.wrote
           /\ last.res.target \notin DOMAIN files
           /\ last.ret = <<>>

C2_Witness ==
    /\ last.res.outcome = "DownloadError"
    /\ last.res.strategy = "general"
    /\ last.res.requested = <<"https://example.com/weights.safetensors?v=2">>

\* C3: an invocation with strength_model = 0 returns the base model for
\* every url, valid or not, without resolving the url, and leaves the node's
\* slot and the disk as they were.
C3_ZeroStrength ==
    [][(Invoked /\ last'.strength_model = 0)
         => /\ last'.ret = <<"base">>
            /\ last'.res.outcome = "skipped"
            /\ Untouched(last'.res)
            /\ UNCHANGED <<dirs, files, loaded_lora, loaded_lora_path>>]_vars

C3_Witness ==
    /\ last.op = "load" /\ last.strength_model = 0
    /\ last.url = ""
    /\ last.ret = <<"base">>
    /\ loaded_lora # None

\* CIVITAI_API_KEY is set and not blank
HasKey(env) == Len(env) > 0 /\ strip(env[1]) # ""

\* C4: the cache subdirectory and file name computed for a url are the same
\* under every value of CIVITAI_API_KEY and are derived from the trimmed (for
\* civitai, rewritten) url; the key appears only in the url that is requested.
C4_KeyNotInCachePath ==
    \A r1, r2 \in resolutions :
        /\ r1.url = r2.url
             => /\ r1.plan.outcome = r2.plan.outcome
                /\ r1.plan.subdir = r2.plan.subdir
                /\ r1.plan.save_filename = r2.plan.save_filename
                /\ r1.plan.hashed = r2.plan.hashed
        /\ (r1.plan.outcome = "ok" /\ r1.plan.strategy \in {"civitai", "general"})
             => /\ r1.plan.save_filename = get_filename_from_url(r1.plan.hashed, "safetensors")
                /\ r1.plan.strategy = "general" => r1.plan.hashed = strip(r1.url)
                /\ r1.plan.request_url =
                      IF r1.plan.strategy = "civitai" /\ HasKey(r1.env)
                      THEN r1.plan.hashed \o "&token=" \o r1.env[1]
                      ELSE r1.plan.hashed

C4_Witness ==
    \E r1, r2 \in resolutions :
        /\ r1.url = r2.url
        /\ r1.env = <<>> /\ r2.env = <<"k3y">>
        /\ r1.plan.outcome = "ok" /\ r1.plan.strategy = "civitai"
        /\ r2.plan.request_url = r1.plan.request_url \o "&token=k3y"
        /\ r2.plan.save_filename = r1.plan.save_filename

\* the urls whose text before the query, lower-cased, does not end in
\* .safetensors
DotExtensionMissing ==
    {u \in Urls : ~endswith(split(lower(strip(u)), "?")[1], ".safetensors")}

\* C5 as stated: on the civitai and generic branches every url that without
\* its query string does not end in .safetensors (case-insensitively) is
\* rejected with ValueError before any cache lookup or download.
C5_ExtensionRequired ==
    (Resolving /\ last.res.strategy \in {"civitai", "general"}
               /\ last.url \in DotExtensionMissing)
        => (last.res.outcome = "ValueError" /\ Untouched(last.res))

\* the urls the generic branch rejects: the text before the first ? does not
\* end in safetensors
GeneralRejects ==
    {u \in Urls : ~endswith(split(lower(strip(u)), "?")[1], "safetensors")}

\* the urls the civitai branch rejects: no modelVersionId and no SafeTensor
CivitaiRejects ==
    {u \in Urls : ~contains(strip(u), "modelVersionId") /\ ~contains(strip(u), "SafeTensor")}

\* C5 amended: the generic branch rejects with ValueError, before any cache
\* lookup or download, every url whose lower-cased text before the first ?
\* does not end in safetensors; the civitai branch rejects likewise every url
\* that contains neither modelVersionId nor the text SafeTensor.
C5_MarkerRequired ==
    Resolving =>
        /\ (last.res.strategy = "general" /\ last.url \in GeneralRejects)
              => (last.res.outcome = "ValueError" /\ Untouched(last.res))
        /\ (last.res.strategy = "civitai" /\ last.url \in CivitaiRejects)
              => (last.res.outcome = "ValueError" /\ Untouched(last.res))

C5_Witness ==
    /\ Resolving
    /\ last.url = "https://example.com/weights.bin?f=x.safetensors"
    /\ last.res.strategy = "general"
    /\ last.res.outcome = "ValueError"

\* C6: the four forms of a huggingface.co url (blob or resolve, with or
\* without ?download=true) resolve to one repository id, subfolder and
\* filename.
C6_FormsAgree ==
    subject.kind = "hf" =>
        \A r1, r2 \in resolutions :
            /\ r1.plan.outcome = "ok"
            /\ r1.plan.hf = r2.plan.hf

\* C7: every civitai url with a modelVersionId parameter is rewritten to the
\* canonical download url of that id, whatever other parameters it carries
\* and wherever they stand, so the cache file name depends on the id alone.
C7_CanonicalForId ==
    subject.kind = "civitai" =>
        \A r \in resolutions :
            /\ r.plan.outcome = "ok"
            /\ r.plan.hashed = CivitaiCanonical(subject.id)
            /\ r.plan.save_filename =
                  get_filename_from_url(CivitaiCanonical(subject.id), "safetensors")

\* the bodies of the successful responses
CompleteBodies == {Some(r.content) : r \in {x \in Responses : x.status_code = 200}}

\* C8: of two concurrent invocations that share a cache path, each one that
\* returns hands back a path whose file holds a complete response body,
\* never a missing, empty or partly written file.
C8_ReturnsCompleteFile ==
    \A t \in DOMAIN pc : pc[t] = "done" => observed[t] \in CompleteBodies

\* the node's slot is empty, or holds the weights read from loaded_lora_path
SlotInv ==
    /\ (loaded_lora = None) <=> (loaded_lora_path = None)
    /\ Len(loaded_lora) <= 1
    /\ loaded_lora # None
         => /\ loaded_lora_path[1] \in DOMAIN files
            /\ loaded_lora = load_torch_file(files[loaded_lora_path[1]])

\* an invocation that resolved its url to a path: the slot is reused when it
\* holds that path, and evicted and refilled from the new path otherwise
SlotStep ==
    (Invoked /\ last'.res.outcome \in {"ok", "LoadError"})
        => LET path == last'.res.lora_path
               read == load_torch_file(files'[path])
           IN  /\ (loaded_lora # None /\ loaded_lora_path = Some(path))
                    => /\ ~last'.loaded /\ ~last'.evicted
                       /\ UNCHANGED <<loaded_lora, loaded_lora_path>>
                       /\ last'.ret = <<load_lora_for_models("base", loaded_lora[1],
                                                             last'.strength_model)>>
               /\ (loaded_lora # None /\ loaded_lora_path # Some(path))
                    => /\ last'.loaded /\ last'.evicted
                       /\ loaded_lora' = read
                       /\ loaded_lora_path' = IF read = None THEN None ELSE Some(path)
               /\ loaded_lora = None
                    => /\ last'.loaded /\ ~last'.evicted
                       /\ loaded_lora' = read

\* C9: the node keeps at most one weights entry, loaded_lora is set exactly
\* when loaded_lora_path is, and the entry is the one read from that path; an
\* invocation resolving to loaded_lora_path reuses the entry without calling
\* load_torch_file, one resolving to another path evicts the entry and
\* replaces it with the weights read from the new path.
C9_SingleSlot == []SlotInv /\ [][SlotStep]_vars

C9_Witness ==
    /\ last.evicted /\ last.loaded
    /\ last.res.outcome = "ok"
    /\ loaded_lora_path = Some(last.res.lora_path)
    /\ loaded_lora = Some(<<"lora", "tensors">>)

\* the host of a url: the text between the scheme and the first / or ?
Host(url) ==
    LET rest == IF startswith(url, "https://") THEN From(url, 9)
                ELSE IF startswith(url, "http://") THEN From(url, 8) ELSE url
    IN  split(split(rest, "/")[1], "?")[1]

\* the http urls whose host names neither huggingface.co nor civitai.com
ForeignHostUrls ==
    {u \in Urls : /\ startswith(strip(u), "http")
                  /\ ~contains(Host(strip(u)), "huggingface.co")
                  /\ ~contains(Host(strip(u)), "civitai.com")}

\* C10: the branch is chosen from the host of the url: a url whose host is
\* neither huggingface.co nor civitai.com takes the generic branch even when
\* its path or query contains one of those names.
C10_HostDecides ==
    (Resolving /\ last.url \in ForeignHostUrls) => last.res.strategy = "general"

====
